---- MODULE Spec2Model ----
(***************************************************************************)
(* Model of src/generate_site.py: the static archive generator.  One run   *)
(* of main() is a sequence of steps (ensure_public_dir, load_data, the     *)
(* empty-data return, generate_index, one generate_daily_page per record). *)
(* The content directory is the input, fixed for a behaviour; the output   *)
(* tree (dirs, fs) persists from one run to the next.                      *)
(*                                                                         *)
(* Text that the program parses is modelled as a sequence of one-character *)
(* strings (file stems, publish times); other text as a string.  Paths and *)
(* hyperlinks are sequences of components (the text split at "/").         *)
(* The JSON keys of an item are written in ASCII:                          *)
(*   "section" (bankuai), "source" (laiyuan), "link" (lianjie),            *)
(*   "title" (biaoti), "category" (fenlei), "pubtime" (fabushijian),       *)
(*   "content" (neirong).                                                  *)
(***************************************************************************)
EXTENDS Integers, Sequences, FiniteSets, TLC

VARIABLES files, clock, run, pc, news_data, idx, dirs, fs, exc, oserror, firstTree

vars == <<files, clock, run, pc, news_data, idx, dirs, fs, exc, oserror, firstTree>>

(***************************************************************************)
(* Bounds of the model.                                                    *)
(***************************************************************************)
\* files in the content tree, general specification
MaxFiles == 2
\* files in the content tree, loader specification
MaxLoaderFiles == 2
\* files in the content tree, renderer specification
MaxRenderFiles == 2
\* files in the content tree beyond the index limit, archive specification
MaxExtraDays == 1
\* runs of main() in a behaviour
MaxRuns == 2
\* New Year rollovers of the wall clock in a behaviour
MaxTicks == 1

(***************************************************************************)
(* Configuration (lines 9-10) and small helpers.                           *)
(***************************************************************************)
CONTENT_DIR == <<"content">>
PUBLIC_DIR == <<"public">>

Last(s) == s[Len(s)]
Front(s) == SubSeq(s, 1, Len(s) - 1)
Min(a, b) == IF a < b THEN a ELSE b

DigitChars == {"0", "1", "2", "3", "4", "5", "6", "7", "8", "9"}
DigitVal(c) ==
    CASE c = "0" -> 0 [] c = "1" -> 1 [] c = "2" -> 2 [] c = "3" -> 3
      [] c = "4" -> 4 [] c = "5" -> 5 [] c = "6" -> 6 [] c = "7" -> 7
      [] c = "8" -> 8 [] c = "9" -> 9

RECURSIVE NumVal(_)
NumVal(cs) == IF cs = <<>> THEN 0 ELSE 10 * NumVal(Front(cs)) + DigitVal(Last(cs))

AllDigits(cs) == \A k \in 1..Len(cs) : cs[k] \in DigitChars

\* the fields of cs between occurrences of sep
RECURSIVE Split(_, _)
Split(cs, sep) ==
    IF \A k \in 1..Len(cs) : cs[k] # sep THEN <<cs>>
    ELSE LET p == CHOOSE k \in 1..Len(cs) :
                    cs[k] = sep /\ \A j \in 1..(k - 1) : cs[j] # sep
         IN <<SubSeq(cs, 1, p - 1)>> \o Split(SubSeq(cs, p + 1, Len(cs)), sep)

(***************************************************************************)
(* Calendar dates: <<year, month, day>>, as datetime.date.                 *)
(***************************************************************************)
IsLeap(y) == y % 4 = 0 /\ (y % 100 # 0 \/ y % 400 = 0)

DaysInMonth(y, m) ==
    IF m = 2 THEN (IF IsLeap(y) THEN 29 ELSE 28)
    ELSE IF m \in {4, 6, 9, 11} THEN 30 ELSE 31

ValidDate(y, m, d) ==
    /\ y >= 1 /\ y <= 9999
    /\ m >= 1 /\ m <= 12
    /\ d >= 1 /\ d <= DaysInMonth(y, m)

DateLT(a, b) ==
    \/ a[1] < b[1]
    \/ a[1] = b[1] /\ a[2] < b[2]
    \/ a[1] = b[1] /\ a[2] = b[2] /\ a[3] < b[3]

(***************************************************************************)
(* datetime.strptime(stem, '%Y-%m-%d') of line 23.  The format compiles to *)
(* \d\d\d\d - (1[0-2]|0[1-9]|[1-9]) - (3[01]|[12]\d|0[1-9]|[1-9]| [1-9]),  *)
(* all of the text must be consumed, and the fields must name a day of the *)
(* calendar.  The result is [ok |-> FALSE] for ValueError.                 *)
(***************************************************************************)
MatchY(f) == Len(f) = 4 /\ AllDigits(f)

MatchM(f) ==
    \/ Len(f) = 2 /\ f[1] = "1" /\ f[2] \in {"0", "1", "2"}
    \/ Len(f) = 2 /\ f[1] = "0" /\ f[2] \in DigitChars \ {"0"}
    \/ Len(f) = 1 /\ f[1] \in DigitChars \ {"0"}

MatchD(f) ==
    \/ Len(f) = 2 /\ f[1] = "3" /\ f[2] \in {"0", "1"}
    \/ Len(f) = 2 /\ f[1] \in {"1", "2"} /\ f[2] \in DigitChars
    \/ Len(f) = 2 /\ f[1] = "0" /\ f[2] \in DigitChars \ {"0"}
    \/ Len(f) = 1 /\ f[1] \in DigitChars \ {"0"}
    \/ Len(f) = 2 /\ f[1] = " " /\ f[2] \in DigitChars \ {"0"}

DayVal(f) == IF f[1] = " " THEN DigitVal(f[2]) ELSE NumVal(f)

strptime(stem) ==
    LET f == Split(stem, "-") IN
    IF Len(f) = 3 /\ MatchY(f[1]) /\ MatchM(f[2]) /\ MatchD(f[3])
       /\ ValidDate(NumVal(f[1]), NumVal(f[2]), DayVal(f[3]))
    THEN [ok |-> TRUE, date |-> <<NumVal(f[1]), NumVal(f[2]), DayVal(f[3])>>]
    ELSE [ok |-> FALSE]

\* f"{n:02d}" of lines 68, 71, 127, 178
Pad2(n) == IF n < 10 THEN "0" \o ToString(n) ELSE ToString(n)

\* date.strftime('%Y-%m-%d') of lines 99, 186 (years of four digits)
DateText(d) == ToString(d[1]) \o "-" \o Pad2(d[2]) \o "-" \o Pad2(d[3])

(***************************************************************************)
(* Paths and links.                                                        *)
(***************************************************************************)
\* os.path.relpath(path, start): up from start to the common prefix, then down
RECURSIVE CommonLen(_, _)
CommonLen(a, b) ==
    IF a # <<>> /\ b # <<>> /\ Head(a) = Head(b)
    THEN 1 + CommonLen(Tail(a), Tail(b)) ELSE 0

relpath(path, start) ==
    LET c == CommonLen(path, start) IN
    [k \in 1..(Len(start) - c) |-> ".."] \o SubSeq(path, c + 1, Len(path))

get_relative_path(from_path, to_path) == relpath(to_path, Front(from_path))

\* what a hyperlink href designates when followed from a page in directory base
RECURSIVE Resolve(_, _)
Resolve(base, href) ==
    IF href = <<>> THEN base
    ELSE IF Head(href) = ".."
         THEN Resolve(IF base # <<>> /\ Last(base) # ".." THEN Front(base)
                      ELSE Append(base, ".."), Tail(href))
         ELSE Resolve(Append(base, Head(href)), Tail(href))

NoDate == <<>>

get_daily_path(date_obj) ==
    IF date_obj = NoDate THEN NoDate
    ELSE PUBLIC_DIR \o <<ToString(date_obj[1]), Pad2(date_obj[2]),
                         Pad2(date_obj[3]) \o ".html">>

IndexPath == PUBLIC_DIR \o <<"index.html">>

\* the navbar's brand link, f"{relative_root}/index.html"
generate_navbar(relative_root) == relative_root \o <<"index.html">>

\* line 72
relative_root == <<"..", "..", "..">>

(***************************************************************************)
(* JSON values as json.load returns them, tagged with their Python type.   *)
(***************************************************************************)
JNull == [t |-> "null"]
JNum(n) == [t |-> "num", v |-> n]
JStr(s) == [t |-> "str", v |-> s]
JList(s) == [t |-> "list", v |-> s]
JObj(f) == [t |-> "obj", v |-> f]

\* dict.get(key, default)
Get(item, key, default) == IF key \in DOMAIN item.v THEN item.v[key] ELSE default

\* str(v), as an f-string renders a value
PyStr(v) ==
    CASE v.t = "str" -> v.v
      [] v.t = "null" -> "None"
      [] v.t = "num" -> ToString(v.v)

\* bool(v) is False (asked of a publish time, whose text is a character sequence)
Falsy(v) ==
    \/ v.t = "null"
    \/ v.t = "num" /\ v.v = 0
    \/ v.t = "str" /\ v.v = <<>>
    \/ v.t = "list" /\ v.v = <<>>
    \/ v.t = "obj" /\ DOMAIN v.v = {}

Hashable(v) == v.t \notin {"list", "obj"}

\* the elements of a set, in some fixed order
RECURSIVE SeqOf(_)
SeqOf(S) == IF S = {} THEN <<>>
            ELSE LET x == CHOOSE y \in S : TRUE IN <<x>> \o SeqOf(S \ {x})

\* what "for entry in content" iterates over; a number or null is not iterable
Iterable(v) == v.t \in {"list", "obj", "str"}
Entries(v) ==
    CASE v.t = "list" -> v.v
      [] v.t = "obj" -> [k \in 1..Cardinality(DOMAIN v.v) |-> JStr(SeqOf(DOMAIN v.v)[k])]
      [] v.t = "str" -> [k \in 1..Len(v.v) |-> JStr(<<v.v[k]>>)]

\* len(v); a number or null has no len()
HasLen(v) == v.t \in {"list", "obj", "str"}
PyLen(v) == IF v.t = "obj" THEN Cardinality(DOMAIN v.v) ELSE Len(v.v)

(***************************************************************************)
(* format_time (lines 161-168).  The publish time is text, a sequence of   *)
(* characters; the result is the text rendered.                            *)
(***************************************************************************)
\* str.replace('Z', '+00:00')
RECURSIVE ReplaceZ(_)
ReplaceZ(cs) ==
    IF cs = <<>> THEN <<>>
    ELSE (IF Head(cs) = "Z" THEN <<"+", "0", "0", ":", "0", "0">> ELSE <<Head(cs)>>)
         \o ReplaceZ(Tail(cs))

TwoDigits(cs, lo, hi) ==
    Len(cs) = 2 /\ AllDigits(cs) /\ NumVal(cs) >= lo /\ NumVal(cs) <= hi

\* HH[:MM[:SS]]
IsoClock(cs) ==
    LET f == Split(cs, ":") IN
    /\ Len(f) \in 1..3
    /\ TwoDigits(f[1], 0, 23)
    /\ \A k \in 2..Len(f) : TwoDigits(f[k], 0, 59)

\* +HH:MM or -HH:MM
IsoOffset(cs) ==
    /\ Len(cs) = 6 /\ cs[1] \in {"+", "-"} /\ cs[4] = ":"
    /\ TwoDigits(SubSeq(cs, 2, 3), 0, 23) /\ TwoDigits(SubSeq(cs, 5, 6), 0, 59)

\* where the UTC offset of a time part starts (its length + 1 when it has none)
OffsetAt(cs) ==
    IF \E k \in 1..Len(cs) : cs[k] \in {"+", "-"}
    THEN CHOOSE k \in 1..Len(cs) :
            cs[k] \in {"+", "-"} /\ \A j \in 1..(k - 1) : cs[j] \notin {"+", "-"}
    ELSE Len(cs) + 1

\* datetime.fromisoformat accepts: YYYY-MM-DD[*HH[:MM[:SS]][+HH:MM]]
IsoDate(cs) ==
    /\ Len(cs) = 10 /\ cs[5] = "-" /\ cs[8] = "-"
    /\ AllDigits(SubSeq(cs, 1, 4)) /\ AllDigits(SubSeq(cs, 6, 7))
    /\ AllDigits(SubSeq(cs, 9, 10))
    /\ ValidDate(NumVal(SubSeq(cs, 1, 4)), NumVal(SubSeq(cs, 6, 7)),
                 NumVal(SubSeq(cs, 9, 10)))

IsoTimePart(cs) == SubSeq(cs, 12, Len(cs))

fromisoformat_ok(cs) ==
    /\ Len(cs) >= 10 /\ IsoDate(SubSeq(cs, 1, 10))
    /\ Len(cs) # 11
    /\ Len(cs) > 11 =>
         LET tp == IsoTimePart(cs)
             o == OffsetAt(tp)
         IN /\ IsoClock(SubSeq(tp, 1, o - 1))
            /\ o <= Len(tp) => IsoOffset(SubSeq(tp, o, Len(tp)))

\* dt.strftime('%H:%M')
HourMinute(cs) ==
    IF Len(cs) = 10 THEN <<"0", "0", ":", "0", "0">>
    ELSE LET tp == IsoTimePart(cs)
             f == Split(SubSeq(tp, 1, OffsetAt(tp) - 1), ":")
         IN f[1] \o <<":">> \o (IF Len(f) >= 2 THEN f[2] ELSE <<"0", "0">>)

format_time(iso_time_str) ==
    IF Falsy(iso_time_str) THEN JStr(<<>>)
    ELSE IF iso_time_str.t = "str" /\ fromisoformat_ok(ReplaceZ(iso_time_str.v))
         THEN JStr(HourMinute(ReplaceZ(iso_time_str.v)))
         ELSE iso_time_str

(***************************************************************************)
(* generate_section_html (lines 129-159): one card per item.               *)
(***************************************************************************)
Card(item) ==
    [href   |-> PyStr(Get(item, "link", JStr("#"))),
     title  |-> PyStr(Get(item, "title", JStr("No Title"))),
     badge  |-> PyStr(Get(item, "category", JStr("General"))),
     source |-> PyStr(Get(item, "source", JStr("Unknown"))),
     time   |-> PyStr(format_time(Get(item, "pubtime", JNull))),
     text   |-> PyStr(Get(item, "content", JStr("")))]

generate_section_html(section_name, items) ==
    [name |-> PyStr(section_name), cards |-> [k \in 1..Len(items) |-> Card(items[k])]]

(***************************************************************************)
(* Grouping by section (lines 75-78).  sections is the defaultdict in      *)
(* first-seen key order: a sequence of [name, items].  The loop raises     *)
(* TypeError on content that is not iterable or on an unhashable section,  *)
(* AttributeError on an entry without .get.                                *)
(***************************************************************************)
SectionOf(entry) == Get(entry, "section", JStr("Uncategorized"))

AddToSection(sections, entry) ==
    LET name == SectionOf(entry) IN
    IF \E k \in 1..Len(sections) : sections[k].name = name
    THEN [k \in 1..Len(sections) |->
            IF sections[k].name = name
            THEN [sections[k] EXCEPT !.items = Append(@, entry)]
            ELSE sections[k]]
    ELSE Append(sections, [name |-> name, items |-> <<entry>>])

RECURSIVE GroupFrom(_, _)
GroupFrom(sections, entries) ==
    IF entries = <<>> THEN [exc |-> "none", sections |-> sections]
    ELSE IF Head(entries).t # "obj" THEN [exc |-> "AttributeError"]
    ELSE IF ~Hashable(SectionOf(Head(entries))) THEN [exc |-> "TypeError"]
    ELSE GroupFrom(AddToSection(sections, Head(entries)), Tail(entries))

GroupSections(content) ==
    IF ~Iterable(content) THEN [exc |-> "TypeError"]
    ELSE GroupFrom(<<>>, Entries(content))

(***************************************************************************)
(* The daily page (lines 81-117) and the index page (lines 172-235), as    *)
(* the parts of the HTML text that vary.                                   *)
(***************************************************************************)
\* lines 101-102: a link when the neighbour date is given, else a disabled button
NavControl(output_file, neighbour) ==
    IF neighbour # NoDate
    THEN [enabled |-> TRUE,
          href |-> get_relative_path(output_file, get_daily_path(neighbour))]
    ELSE [enabled |-> FALSE]

DailyHtml(item, previous_date, next_date, year) ==
    LET output_file == get_daily_path(item.date)
        grouped == GroupSections(item.content)
    IN [kind     |-> "daily",
        title    |-> DateText(item.date),
        navbar   |-> generate_navbar(relative_root),
        next     |-> NavControl(output_file, next_date),
        previous |-> NavControl(output_file, previous_date),
        sections |-> [k \in 1..Len(grouped.sections) |->
                        generate_section_html(grouped.sections[k].name,
                                              grouped.sections[k].items)],
        year     |-> year]

\* line 172
IndexLimit == 5

recent_news(data) == SubSeq(data, 1, Min(IndexLimit, Len(data)))

\* lines 175-191
IndexRow(item) ==
    [href  |-> <<ToString(item.date[1]), Pad2(item.date[2]),
                 Pad2(item.date[3]) \o ".html">>,
     date  |-> DateText(item.date),
     count |-> PyLen(item.content)]

IndexHtml(data, year) ==
    LET recent == recent_news(data) IN
    [kind        |-> "index",
     rows        |-> [k \in 1..Len(recent) |-> IndexRow(recent[k])],
     placeholder |-> recent = <<>>,
     year        |-> year]

(***************************************************************************)
(* The content tree and load_data (lines 12-40).  A file is                *)
(* [dir, stem, ext, body]: its directory below the content root, its name  *)
(* without and with extension, and its body:                               *)
(*   [k |-> "unreadable"]  open() raises OSError                           *)
(*   [k |-> "garbage"]     json.load raises JSONDecodeError (a ValueError) *)
(*   [k |-> "json", v]     json.load returns v                             *)
(* files is the sequence of files in the order os.walk yields them.        *)
(***************************************************************************)
FilePath(f) == [dir |-> f.dir, stem |-> f.stem, ext |-> f.ext]

\* lines 18-36 for one file: the record appended, or <<>> when the file is skipped
LoadFile(f) ==
    IF f.ext # ".json" THEN <<>>
    ELSE IF ~strptime(f.stem).ok THEN <<>>
    ELSE IF f.body.k # "json" THEN <<>>
    ELSE <<[date |-> strptime(f.stem).date, content |-> f.body.v,
            file_path |-> FilePath(f)]>>

RECURSIVE Scan(_)
Scan(fseq) == IF fseq = <<>> THEN <<>> ELSE LoadFile(Head(fseq)) \o Scan(Tail(fseq))

\* list.sort(key=date, reverse=True): stable, equal dates keep their order
RECURSIVE InsertDesc(_, _)
InsertDesc(sorted, x) ==
    IF sorted = <<>> THEN <<x>>
    ELSE IF DateLT(Head(sorted).date, x.date) THEN <<x>> \o sorted
    ELSE <<Head(sorted)>> \o InsertDesc(Tail(sorted), x)

RECURSIVE SortDesc(_)
SortDesc(s) == IF s = <<>> THEN <<>> ELSE InsertDesc(SortDesc(Front(s)), Last(s))

load_data(fseq) == SortDesc(Scan(fseq))

(***************************************************************************)
(* The output tree.  fs maps each file's path to its content, the sequence *)
(* of texts written since it was last truncated; dirs is the set of        *)
(* directories that exist.                                                 *)
(***************************************************************************)
\* open(path, 'w') then f.write(text), lines 119-120 and 237-238
WriteAppending(tree, path, text) ==
    IF path \in DOMAIN tree THEN (path :> Append(tree[path], text)) @@ tree
    ELSE (path :> <<text>>) @@ tree

write_text(tree, path, text) == (path :> <<text>>) @@ tree

\* main() has no handler: an OSError of an output step ends the run (lines 241-259)
AfterOutputSwallowed(ok, next) == next

AfterOutput(ok, next) == IF ok THEN next ELSE "raised"

Terminated == pc \in {"done", "raised"}

(***************************************************************************)
(* The steps of main() (lines 241-259).                                    *)
(***************************************************************************)
\* line 242, lines 42-45: mkdir only when the directory is absent; mkdir may fail
ensure_public_dir ==
    /\ pc = "start"
    /\ \E ok \in BOOLEAN :
         /\ PUBLIC_DIR \in dirs => ok
         /\ dirs' = IF ok THEN dirs \cup {PUBLIC_DIR} ELSE dirs
         /\ pc' = AfterOutput(ok, "load")
         /\ exc' = IF ok THEN exc ELSE "OSError"
         /\ oserror' = (oserror \/ ~ok)
    /\ UNCHANGED <<files, clock, run, news_data, idx, fs, firstTree>>

\* line 243
LoadData ==
    /\ pc = "load"
    /\ news_data' = load_data(files)
    /\ pc' = "loaded"
    /\ UNCHANGED <<files, clock, run, idx, dirs, fs, exc, oserror, firstTree>>

\* lines 245-247
MainNoData ==
    /\ pc = "loaded"
    /\ news_data = <<>>
    /\ pc' = "done"
    /\ UNCHANGED <<files, clock, run, news_data, idx, dirs, fs, exc, oserror, firstTree>>

\* line 249, lines 170-239: len() of a listed day's content may raise TypeError;
\* the write may fail
generate_index ==
    /\ pc = "loaded"
    /\ news_data # <<>>
    /\ \E ok \in BOOLEAN :
         LET recent == recent_news(news_data)
             raises == \E k \in 1..Len(recent) : ~HasLen(recent[k].content)
         IN /\ raises => ok
            /\ fs' = IF ~raises /\ ok
                     THEN write_text(fs, IndexPath, IndexHtml(news_data, clock))
                     ELSE fs
            /\ pc' = IF raises THEN "raised" ELSE AfterOutput(ok, "pages")
            /\ exc' = IF raises THEN "TypeError" ELSE IF ok THEN exc ELSE "OSError"
            /\ oserror' = (oserror \/ ~ok)
    /\ idx' = 1
    /\ UNCHANGED <<files, clock, run, news_data, dirs, firstTree>>

\* lines 252-259, lines 61-123: one iteration of the loop.  mkdir of the month
\* directory may fail when it has to create it; grouping may raise; the write
\* may fail.  After the last record main() returns.
generate_daily_page ==
    /\ pc = "pages"
    /\ idx <= Len(news_data)
    /\ \E okDir, okWrite \in BOOLEAN :
         LET item == news_data[idx]
             next_date == IF idx > 1 THEN news_data[idx - 1].date ELSE NoDate
             prev_date == IF idx < Len(news_data) THEN news_data[idx + 1].date
                          ELSE NoDate
             output_file == get_daily_path(item.date)
             month_dir == Front(output_file)
             year_dir == Front(month_dir)
             grouped == GroupSections(item.content)
             raises == okDir /\ grouped.exc # "none"
             written == okDir /\ grouped.exc = "none" /\ okWrite
             next == IF idx = Len(news_data) THEN "done" ELSE "pages"
         IN /\ month_dir \in dirs => okDir
            /\ ~okDir => okWrite
            /\ raises => okWrite
            /\ dirs' = IF okDir THEN dirs \cup {PUBLIC_DIR, year_dir, month_dir}
                       ELSE dirs
            /\ fs' = IF written
                     THEN write_text(fs, output_file,
                                     DailyHtml(item, prev_date, next_date, clock))
                     ELSE fs
            /\ pc' = IF raises THEN "raised" ELSE AfterOutput(written, next)
            /\ exc' = IF raises THEN grouped.exc
                      ELSE IF written THEN exc ELSE "OSError"
            /\ oserror' = (oserror \/ (~raises /\ ~written))
            /\ idx' = IF pc' = "raised" THEN idx ELSE idx + 1
    /\ UNCHANGED <<files, clock, run, news_data, firstTree>>

(***************************************************************************)
(* The environment: the program is run again on the same content after a   *)
(* run that met no operating-system error, and the year may change.        *)
(***************************************************************************)
Rerun ==
    /\ Terminated
    /\ ~oserror
    /\ run < MaxRuns
    /\ run' = run + 1
    /\ pc' = "start"
    /\ exc' = "none"
    /\ news_data' = <<>>
    /\ idx' = 1
    /\ firstTree' = IF run = 1 THEN fs ELSE firstTree
    /\ UNCHANGED <<files, clock, dirs, fs, oserror>>

\* datetime.now().year of lines 111 and 229 is read from clock
NewYear ==
    /\ clock < MaxTicks
    /\ clock' = clock + 1
    /\ UNCHANGED <<files, run, pc, news_data, idx, dirs, fs, exc, oserror, firstTree>>

Next ==
    \/ ensure_public_dir
    \/ LoadData
    \/ MainNoData
    \/ generate_index
    \/ generate_daily_page
    \/ Rerun
    \/ NewYear

(***************************************************************************)
(* Content trees.                                                          *)
(***************************************************************************)
Root == <<>>
Sub == <<"archive">>

Y2024 == <<"2", "0", "2", "4">>
Stem(y, m, d) == y \o <<"-">> \o m \o <<"-">> \o d

Jan31 == Stem(Y2024, <<"0", "1">>, <<"3", "1">>)
Feb01 == Stem(Y2024, <<"0", "2">>, <<"0", "1">>)
Feb02 == Stem(Y2024, <<"0", "2">>, <<"0", "2">>)
Feb03 == Stem(Y2024, <<"0", "2">>, <<"0", "3">>)
Feb04 == Stem(Y2024, <<"0", "2">>, <<"0", "4">>)
Feb1Short == Stem(Y2024, <<"2">>, <<"1">>)
Feb1Space == Stem(Y2024, <<"0", "2">>, <<" ", "1">>)
Feb30 == Stem(Y2024, <<"0", "2">>, <<"3", "0">>)
Notes == <<"n", "o", "t", "e", "s">>

Morning == <<"2", "0", "2", "4", "-", "0", "1", "-", "3", "1", "T",
             "0", "8", ":", "0", "5", ":", "0", "0", "Z">>
Soon == <<"s", "o", "o", "n">>

FullItem ==
    JObj([section |-> JStr("Tech"), source |-> JStr("Wire"),
          link |-> JStr("https://e.x/1"), title |-> JStr("Launch"),
          category |-> JStr("AI"), pubtime |-> JStr(Morning),
          content |-> JStr("Text")])
BareItem == JObj([source |-> JStr("Wire")])
EmptyItem == JObj(<<>>)
NullItem == JObj([title |-> JNull, pubtime |-> JNull, section |-> JStr("Tech")])
SoonItem == JObj([title |-> JStr("Later"), pubtime |-> JStr(Soon)])
ListSectionItem == JObj([section |-> JList(<<JStr("Tech")>>)])

Unreadable == [k |-> "unreadable"]
Garbage == [k |-> "garbage"]
Json(v) == [k |-> "json", v |-> v]

GoodBody == Json(JList(<<FullItem, BareItem>>))
NonObjectBody == Json(JList(<<JNum(1)>>))
ScalarBody == Json(JNum(5))

File(dir, stem, ext, body) == [dir |-> dir, stem |-> stem, ext |-> ext, body |-> body]

FilesOf(dirset, stems, exts, bodies) ==
    {File(d, s, e, b) : d \in dirset, s \in stems, e \in exts, b \in bodies}

\* os.walk is top-down: the files of the content root come before those of a
\* subdirectory; within a directory the order is the file system's
CanFollow(w, f) ==
    /\ \A k \in 1..Len(w) : FilePath(w[k]) # FilePath(f)
    /\ f.dir = Root => \A k \in 1..Len(w) : w[k].dir = Root

\* the walks of at most n files of pool
RECURSIVE Walks(_, _)
Walks(pool, n) ==
    IF n = 0 THEN {<<>>}
    ELSE LET shorter == Walks(pool, n - 1) IN
         shorter \cup {Append(w, f) : w \in {x \in shorter : Len(x) = n - 1},
                                      f \in pool}

ValidWalk(w) == \A k \in 1..Len(w) : CanFollow(SubSeq(w, 1, k - 1), w[k])

\* the first run starts on an empty output tree, with or without its root
InitWith(walks) ==
    /\ files \in walks
    /\ clock = 0
    /\ run = 1
    /\ pc = "start"
    /\ news_data = <<>>
    /\ idx = 1
    /\ dirs \in {{}, {PUBLIC_DIR}}
    /\ fs = <<>>
    /\ exc = "none"
    /\ oserror = FALSE
    /\ firstTree = <<>>

\* the general specification: few files, of every kind of outcome
FilePool == FilesOf({Root, Sub}, {Jan31, Feb01, Notes}, {".json"},
                    {GoodBody, NonObjectBody, ScalarBody, Garbage})

Init == InitWith({w \in Walks(FilePool, MaxFiles) : ValidWalk(w)})

Spec == Init /\ [][Next]_vars

\* the loader specification: stems and bodies of every kind the loader tells apart
LoaderPool == FilesOf({Root, Sub}, {Feb01, Feb1Short, Feb1Space, Feb30, Notes},
                      {".json", ".txt"}, {GoodBody, Garbage, Unreadable})

LoaderInit == InitWith({w \in Walks(LoaderPool, MaxLoaderFiles) : ValidWalk(w)})

SpecLoader == LoaderInit /\ [][Next]_vars

\* the renderer specification: bodies of every JSON shape
RenderBodies ==
    {Garbage, Json(JNum(5)), Json(JNull), Json(JStr(Soon)), Json(JObj(<<>>)),
     Json(JObj([a |-> JNum(1)])), Json(JList(<<>>)), Json(JList(<<JNum(1)>>)),
     Json(JList(<<FullItem, NullItem>>)), Json(JList(<<EmptyItem, SoonItem>>)),
     Json(JList(<<BareItem, ListSectionItem>>))}

RenderPool == FilesOf({Root}, {Jan31, Feb01}, {".json"}, RenderBodies)

RenderInit == InitWith({w \in Walks(RenderPool, MaxRenderFiles) : ValidWalk(w)})

SpecRender == RenderInit /\ [][Next]_vars

\* the archive specification: more days than the index lists, well-formed bodies.
\* All stems of a directory are distinct dates, so the order within a directory
\* does not reach the sorted result; one order per tree is taken.
ArchivePool == FilesOf({Root, Sub}, {Jan31, Feb01, Feb02, Feb03, Feb04},
                       {".json"}, {GoodBody})

ArchiveWalk(tree) ==
    SeqOf({f \in tree : f.dir = Root}) \o SeqOf({f \in tree : f.dir # Root})

ArchiveInit ==
    InitWith({ArchiveWalk(tree) :
                tree \in {t \in SUBSET ArchivePool :
                            Cardinality(t) <= IndexLimit + MaxExtraDays}})

SpecArchive == ArchiveInit /\ [][Next]_vars

(***************************************************************************)
(* Vocabulary of the properties.                                           *)
(***************************************************************************)
Loaded == pc \in {"loaded", "pages", "done"}

Dates(data) == {data[k].date : k \in 1..Len(data)}

\* the daily pages of the output tree
DailyPaths == {p \in DOMAIN fs : p # IndexPath}

\* the content of an output file
Page(path) == Last(fs[path])

\* the page of record idx - 1 has just been written in this run
JustWritten == pc \in {"pages", "done"} /\ idx > 1 /\ idx <= Len(news_data) + 1
WrittenRecord == news_data[idx - 1]
WrittenPath == get_daily_path(WrittenRecord.date)

\* the index page has been written in this run
IndexWritten == pc \in {"pages", "done"} /\ news_data # <<>>

\* the file a control of the page at path designates
Target(path, control) == Resolve(Front(path), control.href)

LaterDates(d) == {e \in Dates(news_data) : DateLT(d, e)}
EarlierDates(d) == {e \in Dates(news_data) : DateLT(e, d)}
Nearest(later, S) ==
    CHOOSE e \in S : \A o \in S : IF later THEN ~DateLT(o, e) ELSE ~DateLT(e, o)

\* a stem that is a calendar date written as YYYY-MM-DD
StrictStem(stem) == IsoDate(stem)

(***************************************************************************)
(* C1: after load_data the Dataset holds exactly one record per distinct   *)
(* date and is strictly descending by date.                                *)
(***************************************************************************)
C1_OneRecordPerDateStrictlyDescending ==
    Loaded =>
      /\ Len(news_data) = Cardinality(Dates(news_data))
      /\ \A k \in 1..(Len(news_data) - 1) :
            DateLT(news_data[k + 1].date, news_data[k].date)

(***************************************************************************)
(* C2: a run on an empty Dataset ends successfully having written the      *)
(* index page with the "no data" placeholder and no daily page.            *)
(***************************************************************************)
C2_EmptyRunWritesPlaceholderIndex ==
    (pc = "done" /\ news_data = <<>>) =>
      /\ IndexPath \in DOMAIN fs
      /\ Page(IndexPath).placeholder
      /\ DailyPaths = {}

(***************************************************************************)
(* C3: a completed run on a Dataset of N >= 1 records leaves N distinct    *)
(* daily page files and one index page of at most 5 rows.                  *)
(***************************************************************************)
C3_OnePagePerRecord ==
    (pc = "done" /\ news_data # <<>>) =>
      /\ Cardinality(DailyPaths) = Len(news_data)
      /\ IndexPath \in DOMAIN fs
      /\ Len(Page(IndexPath).rows) <= IndexLimit

(***************************************************************************)
(* C4: on the page of a record of date d, "Next Day" is an enabled link    *)
(* exactly when the Dataset holds a later date, and then leads to the page *)
(* of the nearest later date; "Previous Day" likewise for earlier dates;   *)
(* no enabled control leads to the page itself.                            *)
(***************************************************************************)
C4_NeighbourLinks ==
    JustWritten =>
      LET d == WrittenRecord.date
          page == Page(WrittenPath)
      IN /\ page.next.enabled = (LaterDates(d) # {})
         /\ page.next.enabled /\ LaterDates(d) # {} =>
              Target(WrittenPath, page.next) = get_daily_path(Nearest(TRUE, LaterDates(d)))
         /\ page.previous.enabled = (EarlierDates(d) # {})
         /\ page.previous.enabled /\ EarlierDates(d) # {} =>
              Target(WrittenPath, page.previous)
                = get_daily_path(Nearest(FALSE, EarlierDates(d)))
         /\ page.next.enabled => Target(WrittenPath, page.next) # WrittenPath
         /\ page.previous.enabled => Target(WrittenPath, page.previous) # WrittenPath

(***************************************************************************)
(* C5: the index rows are the first min(5, N) records of the Dataset, each *)
(* linking to the page of its own date, and they are 5 distinct days when  *)
(* at least 5 distinct dates were loaded.                                  *)
(***************************************************************************)
C5_IndexListsMostRecentDays ==
    IndexWritten =>
      LET rows == Page(IndexPath).rows IN
      /\ Len(rows) = Min(IndexLimit, Len(news_data))
      /\ \A k \in 1..Len(rows) :
            /\ rows[k].date = DateText(news_data[k].date)
            /\ PUBLIC_DIR \o rows[k].href = get_daily_path(news_data[k].date)
      /\ Cardinality(Dates(news_data)) >= IndexLimit =>
            Cardinality({rows[k].date : k \in 1..Len(rows)}) = IndexLimit

(***************************************************************************)
(* C6: load_data keeps exactly the .json files that can be read, hold      *)
(* valid JSON and whose stem is a YYYY-MM-DD date, each once; a defective  *)
(* file is left out and never ends the run.                                *)
(***************************************************************************)
C6_DefectiveFilesExcluded ==
    Loaded =>
      /\ {news_data[k].file_path : k \in 1..Len(news_data)}
           = {FilePath(files[k]) : k \in {j \in 1..Len(files) :
                  /\ files[j].ext = ".json"
                  /\ StrictStem(files[j].stem)
                  /\ files[j].body.k = "json"}}
      /\ \A j, k \in 1..Len(news_data) :
            news_data[j].file_path = news_data[k].file_path => j = k

(***************************************************************************)
(* C7: rendering never raises on a body that is valid JSON, and a field    *)
(* that an item lacks is rendered as its default.                          *)
(***************************************************************************)
DefaultsShown(record, page) ==
    LET grouped == GroupSections(record.content).sections IN
    \A s \in 1..Len(grouped) : \A k \in 1..Len(grouped[s].items) :
       LET item == grouped[s].items[k]
           card == page.sections[s].cards[k]
       IN /\ "title" \notin DOMAIN item.v => card.title = "No Title"
          /\ "category" \notin DOMAIN item.v => card.badge = "General"
          /\ "source" \notin DOMAIN item.v => card.source = "Unknown"
          /\ "link" \notin DOMAIN item.v => card.href = "#"
          /\ "content" \notin DOMAIN item.v => card.text = ""
          /\ "pubtime" \notin DOMAIN item.v => card.time = <<>>
          /\ "section" \notin DOMAIN item.v => page.sections[s].name = "Uncategorized"

C7_RenderingNeverRaises ==
    /\ exc \notin {"TypeError", "AttributeError"}
    /\ JustWritten => DefaultsShown(WrittenRecord, Page(WrittenPath))

(***************************************************************************)
(* C8: once an output step has failed, the run has ended with the error    *)
(* and writes nothing more: no file and no directory changes afterwards.   *)
(***************************************************************************)
C8_OutputFailureIsFatal ==
    /\ [](oserror => (pc = "raised" /\ exc = "OSError"))
    /\ [][oserror => (fs' = fs /\ dirs' = dirs)]_vars

\* an output step failed while the index was written and records were pending
C8_Witness ==
    /\ oserror /\ pc = "raised"
    /\ IndexPath \in DOMAIN fs
    /\ DailyPaths # {}
    /\ idx <= Len(news_data)

(***************************************************************************)
(* C9: a later run on the same content in the same year, met by no         *)
(* operating-system error, ends with the output tree the first run left.   *)
(***************************************************************************)
C9_RerunIsIdempotent ==
    (run >= 2 /\ Terminated /\ ~oserror /\ clock = 0) => fs = firstTree

\* a second run completed over an index and a page that two records share
C9_Witness ==
    /\ run >= 2 /\ pc = "done" /\ ~oserror /\ clock = 0
    /\ Len(news_data) = 2
    /\ Cardinality(DailyPaths) = 1

(***************************************************************************)
(* C10: the navbar link of a daily page, followed from the page's          *)
(* location, leads to the index page of the output root.                   *)
(***************************************************************************)
C10_NavbarLeadsToIndex ==
    JustWritten => Resolve(Front(WrittenPath), Page(WrittenPath).navbar) = IndexPath

====
